---- MODULE Spec2Model ----
(***************************************************************************)
(* Model of src/oaknorth-grants-on.py: the projection engine               *)
(* calculate_results and the script that calls it.                         *)
(*                                                                         *)
(* Numbers.  The program computes with Python ints and floats.  The model  *)
(* computes with exact decimals: a number is [neg, mag, exp], standing for *)
(* (+/-) mag * Base^(-exp), mag a little-endian sequence of base-Base      *)
(* limbs, in canonical form (so = on numbers is numeric equality).  Every  *)
(* input of the model is a decimal with few digits, so every sum,          *)
(* difference and product is computed exactly, with no bound on its size.  *)
(* The rounding of IEEE doubles is therefore NOT modelled: an equality     *)
(* stated below is an equality of the real-number values the code          *)
(* computes, which the doubles approximate to within rounding error        *)
(* (spec section 8: "exact, modulo floating-point tolerance").             *)
(***************************************************************************)
EXTENDS Integers, Sequences, FiniteSets, TLC

Base == 10 ^ 4

Max2(a, b) == IF a >= b THEN a ELSE b

Limb(a, i) == IF i >= 1 /\ i <= Len(a) THEN a[i] ELSE 0

RECURSIVE Carry(_, _, _)
\* Column sums s (least significant first) to limbs below Base.
Carry(s, i, c) ==
    IF i > Len(s)
    THEN IF c = 0 THEN <<>> ELSE <<c % Base>> \o Carry(s, i, c \div Base)
    ELSE <<(s[i] + c) % Base>> \o Carry(s, i + 1, (s[i] + c) \div Base)

RECURSIVE StripHigh(_)
StripHigh(a) ==
    IF a = <<>> THEN a
    ELSE IF a[Len(a)] = 0 THEN StripHigh(SubSeq(a, 1, Len(a) - 1)) ELSE a

NatAdd(a, b) ==
    Carry([i \in 1..Max2(Len(a), Len(b)) |-> Limb(a, i) + Limb(b, i)], 1, 0)

RECURSIVE Borrow(_, _, _)
Borrow(s, i, c) ==
    IF i > Len(s) THEN <<>>
    ELSE LET v == s[i] - c
         IN  IF v < 0 THEN <<v + Base>> \o Borrow(s, i + 1, 1)
                      ELSE <<v>> \o Borrow(s, i + 1, 0)

\* a - b for naturals a >= b.
NatSub(a, b) ==
    StripHigh(Borrow([i \in 1..Len(a) |-> a[i] - Limb(b, i)], 1, 0))

RECURSIVE CmpFrom(_, _, _)
CmpFrom(a, b, i) ==
    IF i = 0 THEN 0
    ELSE IF a[i] > b[i] THEN 1
    ELSE IF a[i] < b[i] THEN -1
    ELSE CmpFrom(a, b, i - 1)

NatCmp(a, b) ==
    IF Len(a) > Len(b) THEN 1
    ELSE IF Len(a) < Len(b) THEN -1
    ELSE CmpFrom(a, b, Len(a))

RECURSIVE Conv(_, _, _, _)
\* Column j of the schoolbook product of a and b.
Conv(a, b, j, i) ==
    IF i > Len(a) \/ i > j THEN 0
    ELSE a[i] * Limb(b, j - i + 1) + Conv(a, b, j, i + 1)

NatMul(a, b) ==
    IF a = <<>> \/ b = <<>> THEN <<>>
    ELSE Carry([j \in 1..(Len(a) + Len(b) - 1) |-> Conv(a, b, j, 1)], 1, 0)

ShiftUp(a, n) == IF a = <<>> THEN a ELSE [i \in 1..n |-> 0] \o a

RECURSIVE Norm(_, _)
Norm(m, k) ==
    IF m = <<>> THEN [neg |-> FALSE, mag |-> <<>>, exp |-> 0]
    ELSE IF k > 0 /\ m[1] = 0 THEN Norm(Tail(m), k - 1)
    ELSE [neg |-> FALSE, mag |-> m, exp |-> k]

Mk(neg, m, k) == LET n == Norm(m, k) IN [n EXCEPT !.neg = neg /\ n.mag # <<>>]

RECURSIVE NatOf(_)
NatOf(n) == IF n = 0 THEN <<>> ELSE <<n % Base>> \o NatOf(n \div Base)

\* The number n * Base^(-k): Dec(30000, 0) is 30000, Dec(500, 1) is 0.05.
Dec(n, k) == Mk(n < 0, NatOf(IF n < 0 THEN -n ELSE n), k)

\* n / 100, the way the sidebar turns a slider's percent into a rate.
Pct(n) == Dec(100 * n, 1)

Zero == Dec(0, 0)
One == Dec(1, 0)

Neg(x) == [x EXCEPT !.neg = ~x.neg /\ x.mag # <<>>]

\* Python x + y
Add(x, y) ==
    LET k  == Max2(x.exp, y.exp)
        mx == ShiftUp(x.mag, k - x.exp)
        my == ShiftUp(y.mag, k - y.exp)
        c  == NatCmp(mx, my)
    IN  IF x.neg = y.neg THEN Mk(x.neg, NatAdd(mx, my), k)
        ELSE IF c = 0 THEN Zero
        ELSE IF c > 0 THEN Mk(x.neg, NatSub(mx, my), k)
        ELSE Mk(y.neg, NatSub(my, mx), k)

\* Python x - y
Sub(x, y) == Add(x, Neg(y))

\* Python x * y
Mul(x, y) == Mk(x.neg # y.neg, NatMul(x.mag, y.mag), x.exp + y.exp)

Sign(x) == IF x.mag = <<>> THEN 0 ELSE IF x.neg THEN -1 ELSE 1

\* Python x < y, x <= y
Less(x, y) == Sign(Sub(x, y)) < 0
Leq(x, y) == Sign(Sub(x, y)) <= 0

\* Python min(x, y) and max(0, x) as the code uses them
Min(x, y) == IF Less(y, x) THEN y ELSE x
\* Faulty variant: the difference is taken as it is, negative or not.
Max0Unclamped(x) == x
Max0(x) == IF Less(Zero, x) THEN x ELSE Zero

(***************************************************************************)
(* Python values that are not numbers.                                     *)
(***************************************************************************)
None == [none |-> TRUE]
\* A sidebar value of the wrong type (a string): comparing it with a number
\* raises TypeError.
NotANumber == [str |-> TRUE]
IsNum(v) == DOMAIN v = {"neg", "mag", "exp"}

FirstYear == 2024
LastYear == 2035
years == FirstYear..LastYear

VARIABLES
    pbt_growth_rate,         \* sidebar: growth slider / 100
    common_redemption_rate,  \* sidebar: common redemption slider / 100
    total_common_shares,     \* sidebar
    common_purchase_price,   \* sidebar
    option_redemption_rate,  \* sidebar: option redemption slider / 100
    strike_price,            \* sidebar
    total_grant_shares,      \* sidebar
    vested_shares_input,     \* sidebar: dict year -> vested shares
    results,                 \* the main table (<<>> while unbound)
    rate_results,            \* the table of the latest sensitivity call
    pc,                      \* where the script is
    idx,                     \* position in the sensitivity list being run
    calls                    \* history: the calculate_results calls made so far

ambient == <<pbt_growth_rate, common_redemption_rate, total_common_shares,
             common_purchase_price, option_redemption_rate, strike_price,
             total_grant_shares, vested_shares_input>>
vars == <<pbt_growth_rate, common_redemption_rate, total_common_shares,
          common_purchase_price, option_redemption_rate, strike_price,
          total_grant_shares, vested_shares_input, results, rate_results,
          pc, idx, calls>>

(***************************************************************************)
(* calculate_results                                                       *)
(***************************************************************************)
\* Faulty variant: an argument of 0.0 is taken for an omitted one (as `arg or
\* sidebar` would).
CurrentRateFalsy(arg, sidebar) == IF arg = None \/ arg = Zero THEN sidebar ELSE arg

\* lines 194-207: an argument that is None takes the sidebar's value
CurrentRate(arg, sidebar) == IF arg = None THEN sidebar ELSE arg

\* Faulty variant: every year's price is the 2024 price grown once (growth is not
\* compounded from year to year).
SharePriceNotCompounded(year, current_growth_rate) ==
    [y \in FirstYear..year |->
        IF y = FirstYear THEN Dec(6, 0)
        ELSE Mul(Dec(6, 0), Add(One, current_growth_rate))]

RECURSIVE SharePrice(_, _)
\* lines 217-219: results[year]['Share Price'], for the years up to `year`
SharePrice(year, current_growth_rate) ==
    IF year = FirstYear THEN (FirstYear :> Dec(6, 0))
    ELSE LET prev == SharePrice(year - 1, current_growth_rate)
         IN  prev @@ (year :> Mul(prev[year - 1], Add(One, current_growth_rate)))

\* Faulty variant: the 2024 holding is left at the 0.0 every field starts with.
Common2024NoHolding ==
    [k \in {"Common Shares Redeemed", "Cumulative Common Redeemed",
            "Unsold Common Shares", "Common Redemption Value",
            "Cumulative Common Redemption Value",
            "Value of Unsold Common Shares", "Total Common Share Value"} |-> Zero]

\* lines 222-232: the common-share fields of 2024
Common2024 ==
    [k \in {"Common Shares Redeemed", "Cumulative Common Redeemed",
            "Common Redemption Value", "Cumulative Common Redemption Value",
            "Value of Unsold Common Shares", "Total Common Share Value"} |-> Zero]
    @@ ("Unsold Common Shares" :> total_common_shares)

\* lines 235-244: the common-share fields of 2025 (no redemption)
Common2025(share_price) ==
    LET common_price_diff_2025 == Max0(Sub(share_price, common_purchase_price))
        value_unsold == Mul(common_price_diff_2025, total_common_shares)
    IN  [k \in {"Common Shares Redeemed", "Cumulative Common Redeemed",
                "Common Redemption Value", "Cumulative Common Redemption Value"} |-> Zero]
        @@ ("Unsold Common Shares" :> total_common_shares)
        @@ ("Value of Unsold Common Shares" :> value_unsold)
        @@ ("Total Common Share Value" :> value_unsold)

\* Faulty variant: a year redeems the rate times the whole holding.
CommonRedeemedOfTotal(prev, current_common_redemption) ==
    Mul(total_common_shares, current_common_redemption)

\* line 249: the shares redeemed in a year, from last year's fields
CommonRedeemed(prev, current_common_redemption) ==
    Mul(prev["Unsold Common Shares"], current_common_redemption)

\* Faulty variant: the shares redeemed so far are taken off last year's unsold shares.
CommonUnsoldFromLastYear(prev, cumulative) ==
    Sub(prev["Unsold Common Shares"], cumulative)

\* line 255: the shares unsold after a year
CommonUnsold(prev, cumulative) == Sub(total_common_shares, cumulative)

\* lines 249-268: one pass of the common-share loop, from last year's fields
CommonYear(prev, share_price, current_common_redemption) ==
    LET redeemed == CommonRedeemed(prev, current_common_redemption)
        cumulative == Add(prev["Cumulative Common Redeemed"], redeemed)
        unsold == CommonUnsold(prev, cumulative)
        common_price_diff == Max0(Sub(share_price, common_purchase_price))
        redemption_value == Mul(common_price_diff, redeemed)
        cumulative_value ==
            Add(prev["Cumulative Common Redemption Value"], redemption_value)
        value_unsold == Mul(common_price_diff, unsold)
    IN  ("Common Shares Redeemed" :> redeemed)
        @@ ("Cumulative Common Redeemed" :> cumulative)
        @@ ("Unsold Common Shares" :> unsold)
        @@ ("Common Redemption Value" :> redemption_value)
        @@ ("Cumulative Common Redemption Value" :> cumulative_value)
        @@ ("Value of Unsold Common Shares" :> value_unsold)
        @@ ("Total Common Share Value" :> Add(cumulative_value, value_unsold))

RECURSIVE CommonRows(_, _, _)
\* lines 222-268: the common-share fields of the years up to `year`
CommonRows(year, price, current_common_redemption) ==
    IF year = FirstYear THEN (FirstYear :> Common2024)
    ELSE LET rows == CommonRows(year - 1, price, current_common_redemption)
         IN  rows @@
             (year :> IF year = 2025 THEN Common2025(price[year])
                      ELSE CommonYear(rows[year - 1], price[year],
                                      current_common_redemption))

\* dict.get(year, default)
Get(d, year, default) == IF year \in DOMAIN d THEN d[year] ELSE default

\* lines 288, 310: the vested value is unusable
Invalid(v) == v = None \/ Less(v, Zero) \/ Less(total_grant_shares, v)

\* lines 287-289
Vested2025 ==
    LET vested_2025 == Get(vested_shares_input, 2025, Zero)
    IN  IF Invalid(vested_2025) THEN Min(Dec(60000, 0), total_grant_shares)
        ELSE vested_2025

\* Faulty variant: an out-of-range value is clamped to [0, total_grant_shares].
VestedSharesClamped(year, prev_vested) ==
    LET vested_shares ==
            Get(vested_shares_input, year, Get(vested_shares_input, year - 1, Zero))
    IN  IF vested_shares = None THEN Min(Add(prev_vested, Dec(5000, 0)), total_grant_shares)
        ELSE IF Less(vested_shares, Zero) THEN Zero
        ELSE Min(vested_shares, total_grant_shares)

\* lines 307-312
VestedShares(year, prev_vested) ==
    LET vested_shares ==
            Get(vested_shares_input, year, Get(vested_shares_input, year - 1, Zero))
    IN  IF Invalid(vested_shares)
        THEN Min(Add(prev_vested, Dec(5000, 0)), total_grant_shares)
        ELSE vested_shares

\* lines 271-283: the option fields of 2024
Option2024 ==
    [k \in {"Vested Shares", "Vested Unsold Shares", "Redeemed Shares",
            "Cumulative Redeemed", "Redemption Value", "Cumulative Redemption Value",
            "Value of Unsold Shares", "Total Grant Value"} |-> Zero]
    @@ ("Unsold Shares" :> total_grant_shares)

\* lines 287-302: the option fields of 2025 (no redemption)
Option2025(share_price) ==
    LET share_price_diff_2025 == Max0(Sub(share_price, strike_price))
        value_unsold == Mul(share_price_diff_2025, Vested2025)
    IN  [k \in {"Redeemed Shares", "Cumulative Redeemed", "Redemption Value",
                "Cumulative Redemption Value"} |-> Zero]
        @@ ("Vested Shares" :> Vested2025)
        @@ ("Vested Unsold Shares" :> Vested2025)
        @@ ("Unsold Shares" :> total_grant_shares)
        @@ ("Value of Unsold Shares" :> value_unsold)
        @@ ("Total Grant Value" :> value_unsold)

\* Faulty variant: the shares redeemed so far are taken off the grant, not off
\* the vested shares.
VestedUnsoldOfGrant(vested, cumulative) == Max0(Sub(total_grant_shares, cumulative))

\* Faulty variant: the vested unsold shares have no floor.
VestedUnsoldNoFloor(vested, cumulative) == Sub(vested, cumulative)

\* line 323: the vested shares not yet redeemed
VestedUnsold(vested, cumulative) == Max0(Sub(vested, cumulative))

\* Faulty variant: the shares redeemed so far are taken off last year's unsold shares.
OptionUnsoldFromLastYear(prev, cumulative) == Sub(prev["Unsold Shares"], cumulative)

\* line 326: the granted shares not yet redeemed
OptionUnsold(prev, cumulative) == Sub(total_grant_shares, cumulative)

\* lines 307-339: one pass of the option loop, from last year's fields
OptionYear(prev, year, share_price, current_option_redemption) ==
    LET vested == VestedShares(year, prev["Vested Shares"])
        redeemed == Mul(prev["Vested Unsold Shares"], current_option_redemption)
        cumulative == Add(prev["Cumulative Redeemed"], redeemed)
        vested_unsold == VestedUnsold(vested, cumulative)
        unsold == OptionUnsold(prev, cumulative)
        share_price_diff == Max0(Sub(share_price, strike_price))
        redemption_value == Mul(share_price_diff, redeemed)
        cumulative_value == Add(prev["Cumulative Redemption Value"], redemption_value)
        value_unsold == Mul(share_price_diff, vested_unsold)
    IN  ("Vested Shares" :> vested)
        @@ ("Redeemed Shares" :> redeemed)
        @@ ("Cumulative Redeemed" :> cumulative)
        @@ ("Vested Unsold Shares" :> vested_unsold)
        @@ ("Unsold Shares" :> unsold)
        @@ ("Redemption Value" :> redemption_value)
        @@ ("Cumulative Redemption Value" :> cumulative_value)
        @@ ("Value of Unsold Shares" :> value_unsold)
        @@ ("Total Grant Value" :> Add(cumulative_value, value_unsold))

RECURSIVE OptionRows(_, _, _)
\* lines 271-339: the option fields of the years up to `year`
OptionRows(year, price, current_option_redemption) ==
    IF year = FirstYear THEN (FirstYear :> Option2024)
    ELSE LET rows == OptionRows(year - 1, price, current_option_redemption)
         IN  rows @@
             (year :> IF year = 2025 THEN Option2025(price[year])
                      ELSE OptionYear(rows[year - 1], year, price[year],
                                      current_option_redemption))

\* lines 342-343: 2024 has no combined value
Combined(year, common, option) ==
    IF year = FirstYear THEN <<>>
    ELSE ("Combined Total Value" :>
             Add(common["Total Common Share Value"], option["Total Grant Value"]))

\* lines 192-345: the table the call returns (when it does not raise)
calculate_results(growth_rate, custom_common_redemption, custom_option_redemption) ==
    LET current_growth_rate == CurrentRate(growth_rate, pbt_growth_rate)
        current_common_redemption ==
            CurrentRate(custom_common_redemption, common_redemption_rate)
        current_option_redemption ==
            CurrentRate(custom_option_redemption, option_redemption_rate)
        price == SharePrice(LastYear, current_growth_rate)
        common == CommonRows(LastYear, price, current_common_redemption)
        option == OptionRows(LastYear, price, current_option_redemption)
    IN  [year \in years |->
            ("Share Price" :> price[year]) @@ common[year] @@ option[year]
            @@ Combined(year, common[year], option[year])]

\* The value the engine reads for a year: lines 287 and 307
Supplied(year) ==
    IF year = 2025 THEN Get(vested_shares_input, 2025, Zero)
    ELSE Get(vested_shares_input, year, Get(vested_shares_input, year - 1, Zero))

\* The call raises TypeError and returns no table: at line 219 when the growth
\* it runs with is not a number (1 + current_growth_rate), at lines 288 and
\* 310 when a schedule value that is neither None nor a number is compared
\* with 0
Raises(growth_rate) ==
    \/ CurrentRate(growth_rate, pbt_growth_rate) = NotANumber
    \/ \E year \in 2025..LastYear : Supplied(year) = NotANumber

(***************************************************************************)
(* The sidebar (lines 19-189).  The widgets are the input supplier; the    *)
(* sets below sample the parameter domain of the engine, with the values   *)
(* the widgets offer by default among them.                                *)
(***************************************************************************)
\* lines 103-123: the default schedule, capped by the grant
DefaultSchedule(grant) ==
    [year \in 2025..LastYear |->
        Min(Dec(IF year = 2025 THEN 60000
                ELSE IF year = 2026 THEN 70000
                ELSE IF year = 2027 THEN 80000
                ELSE IF year = 2028 THEN 90000
                ELSE 100000, 0), grant)]

\* How many of the years 2026, 2027, ... a sampled schedule may change at.
MaxSwitch == 2

\* A year the schedule has no entry for (the key is absent from the dict).
Missing == [missing |-> TRUE]

\* The schedule with entry a before year k and entry b from year k on.
Step(a, b, k) ==
    LET entry(year) == IF year < k THEN a ELSE b
    IN  [year \in {y \in 2025..LastYear : entry(y) # Missing} |-> entry(year)]

\* Entries a schedule is sampled from, for a grant of `grant` shares: absent,
\* None, negative, zero, part of the grant, all of it, more than it, a string.
Entries(grant) ==
    {Missing, None, Dec(-100, 0), Zero, Dec(3000, 0), grant,
     Add(grant, Dec(100, 0)), NotANumber}

Sidebar(g, c, T, pp, o, K, G, v) ==
    [g |-> g, c |-> c, T |-> T, pp |-> pp, o |-> o, K |-> K, G |-> G, v |-> v]

\* Common-share side varied, option side as the widgets default it.
CommonInputs ==
    { Sidebar(g, c, T, pp, Pct(5), Dec(6, 0), Dec(100000, 0),
              DefaultSchedule(Dec(100000, 0))) :
        g \in {Pct(-50), Pct(0), Pct(20)}, c \in {Pct(0), Pct(5), Pct(100)},
        T \in {Zero, Dec(30000, 0)}, pp \in {Dec(2, 0), Dec(100, 0)} }

\* Option side varied over prices, with the default schedule.
OptionPriceInputs ==
    { Sidebar(g, Pct(5), Zero, Dec(2, 0), o, K, Dec(100000, 0),
              DefaultSchedule(Dec(100000, 0))) :
        g \in {Pct(-50), Pct(0), Pct(20)}, o \in {Pct(5), Pct(100)},
        K \in {Dec(6, 0), Dec(100, 0)} }

\* Option side varied over schedules, well formed and not.
ScheduleInputs ==
    UNION { { Sidebar(Pct(20), Pct(5), Zero, Dec(2, 0), o, Dec(6, 0), G, Step(a, b, k)) :
                o \in {Pct(5), Pct(100)},
                a \in {Missing, Dec(3000, 0), Add(G, Dec(100, 0))},
                b \in Entries(G),
                k \in 2026..(2025 + MaxSwitch) } :
            G \in {Dec(4000, 0), Dec(100000, 0)} }

\* Both sides alike: as many common shares as granted, one price, one rate,
\* everything vested from 2025 on.
AlikeInputs ==
    { Sidebar(Pct(20), r, Dec(30000, 0), P, r, P, Dec(30000, 0),
              Step(Dec(30000, 0), Dec(30000, 0), 2026)) :
        r \in {Pct(5), Pct(100)}, P \in {Dec(2, 0), Dec(100, 0)} }

\* A sidebar whose growth is not a number: the main run, which reads it,
\* fails, and a run given its growth as an argument does not.
NoGrowthInputs ==
    { Sidebar(NotANumber, Pct(5), T, Dec(2, 0), Pct(5), Dec(6, 0), Dec(100000, 0),
              DefaultSchedule(Dec(100000, 0))) :
        T \in {Zero, Dec(30000, 0)} }

Inputs ==
    CommonInputs \cup OptionPriceInputs \cup ScheduleInputs \cup AlikeInputs
    \cup NoGrowthInputs

Init ==
    /\ \E in \in Inputs :
          /\ pbt_growth_rate = in.g
          /\ common_redemption_rate = in.c
          /\ total_common_shares = in.T
          /\ common_purchase_price = in.pp
          /\ option_redemption_rate = in.o
          /\ strike_price = in.K
          /\ total_grant_shares = in.G
          /\ vested_shares_input = in.v
    /\ results = <<>>
    /\ rate_results = <<>>
    /\ pc = "main"
    /\ idx = 1
    /\ calls = <<>>

\* A call: its arguments, the variable its table is bound to, and whether it
\* raised instead of returning.
Call(g, c, o, into, raised) ==
    [growth_rate |-> g, custom_common_redemption |-> c,
     custom_option_redemption |-> o, into |-> into, raised |-> raised]

\* Faulty variant: calculate_results fills the global `results` (as under a `global
\* results` statement), so a sensitivity call rebinds the main table too.
UntouchedSharedTable(into) ==
    IF into = "results" THEN UNCHANGED <<ambient, rate_results>>
                        ELSE UNCHANGED ambient /\ results' = rate_results'

\* lines 192-214: calculate_results assigns only its own locals (its `results`
\* is a fresh dict of its own), so a call whose table is bound to `into`
\* leaves the sidebar and the other table as they are
Untouched(into) ==
    IF into = "results" THEN UNCHANGED <<ambient, rate_results>>
                        ELSE UNCHANGED <<ambient, results>>

\* Faulty variant: a main run that raises is passed over (as with `except:
\* pass`), and the tabs follow with no table.
MainRunPassedOver ==
    /\ pc = "main"
    /\ calls' = Append(calls, Call(None, None, None, "results", Raises(None)))
    /\ pc' = "tab1"
    /\ IF Raises(None) THEN UNCHANGED results
                       ELSE results' = calculate_results(None, None, None)
    /\ Untouched("results")
    /\ UNCHANGED idx

\* lines 348-356: the main run, with the sidebar's rates
MainRun ==
    /\ pc = "main"
    /\ calls' = Append(calls, Call(None, None, None, "results", Raises(None)))
    /\ IF Raises(None)
       THEN pc' = "fallback" /\ UNCHANGED results
       ELSE pc' = "tab1" /\ results' = calculate_results(None, None, None)
    /\ Untouched("results")
    /\ UNCHANGED idx

\* lines 358-367: the fallback run, with fixed rates
FallbackRun ==
    /\ pc = "fallback"
    /\ calls' = Append(calls, Call(Pct(10), Pct(5), Pct(5), "results", Raises(Pct(10))))
    /\ IF Raises(Pct(10))
       THEN pc' = "stopped" /\ UNCHANGED results
       ELSE pc' = "tab1" /\ results' = calculate_results(Pct(10), Pct(5), Pct(5))
    /\ Untouched("results")
    /\ UNCHANGED idx

\* lines 409, 476: redemption_rates; line 524: growth_rates
redemption_rates == <<Pct(0), Pct(5), Pct(10)>>
growth_rates == <<Pct(15), Pct(20)>>

\* One pass of a sensitivity loop at `here`, calling with (g, c, o): an
\* exception leaves the loop for the next tab (lines 430, 497, 545).
SensitivityPass(here, next, n, g, c, o) ==
    /\ pc = here
    /\ calls' = Append(calls, Call(g, c, o, "rate_results", Raises(g)))
    /\ IF Raises(g)
       THEN pc' = next /\ idx' = 1 /\ UNCHANGED rate_results
       ELSE /\ rate_results' = calculate_results(g, c, o)
            /\ IF idx = n THEN pc' = next /\ idx' = 1
                          ELSE pc' = here /\ idx' = idx + 1
    /\ Untouched("rate_results")

\* lines 384, 412-414
CommonSensitivity ==
    /\ Less(Zero, total_common_shares)
    /\ SensitivityPass("tab1", "tab2", Len(redemption_rates),
                       Pct(20), redemption_rates[idx], None)

\* line 384: no common shares, no common tab
SkipCommon ==
    /\ pc = "tab1"
    /\ ~Less(Zero, total_common_shares)
    /\ pc' = "tab2"
    /\ UNCHANGED <<ambient, results, rate_results, idx, calls>>

\* lines 479-481
OptionSensitivity ==
    SensitivityPass("tab2", "tab3", Len(redemption_rates),
                    Pct(20), None, redemption_rates[idx])

\* lines 502, 527-529
CombinedSensitivity ==
    /\ Less(Zero, total_common_shares)
    /\ SensitivityPass("tab3", "done", Len(growth_rates),
                       growth_rates[idx], Pct(0), Pct(0))

\* line 502: no common shares, no combined tab
SkipCombined ==
    /\ pc = "tab3"
    /\ ~Less(Zero, total_common_shares)
    /\ pc' = "done"
    /\ UNCHANGED <<ambient, results, rate_results, idx, calls>>

Next ==
    \/ MainRun
    \/ FallbackRun
    \/ CommonSensitivity
    \/ SkipCommon
    \/ OptionSensitivity
    \/ CombinedSensitivity
    \/ SkipCombined

Spec == Init /\ [][Next]_vars

(***************************************************************************)
(* Properties.  They speak of the table of the latest call that returned,  *)
(* and of the rates that call ran with: an argument when one was given,    *)
(* the sidebar's value when the argument was None.                         *)
(***************************************************************************)
Latest == calls[Len(calls)]
HasTable == calls # <<>> /\ ~Latest.raised
Returned == IF Latest.into = "results" THEN results ELSE rate_results
GrowthUsed ==
    IF Latest.growth_rate = None THEN pbt_growth_rate ELSE Latest.growth_rate
CommonRateUsed ==
    IF Latest.custom_common_redemption = None THEN common_redemption_rate
    ELSE Latest.custom_common_redemption
OptionRateUsed ==
    IF Latest.custom_option_redemption = None THEN option_redemption_rate
    ELSE Latest.custom_option_redemption
From2025 == 2025..LastYear
From2026 == 2026..LastYear

\* C1: Share Price[2024] is 6.00 and every later year's price is the year
\* before's times (1 + growth rate), whatever the other inputs are.
C1_SharePriceRecurrence ==
    HasTable =>
        /\ Returned[FirstYear]["Share Price"] = Dec(6, 0)
        /\ \A y \in From2025 :
              Returned[y]["Share Price"] =
                  Mul(Returned[y - 1]["Share Price"], Add(One, GrowthUsed))

\* C1 witness: a table at 20 % growth, whose 2026 price is 8.64.
C1_Witness ==
    /\ HasTable
    /\ GrowthUsed = Pct(20)
    /\ Returned[2026]["Share Price"] = Dec(86400, 1)

\* C2: in every year from 2025 on, the common shares redeemed so far and the
\* common shares still unsold add up to total_common_shares.
C2_CommonConservation ==
    HasTable =>
        \A y \in From2025 :
            Add(Returned[y]["Cumulative Common Redeemed"],
                Returned[y]["Unsold Common Shares"]) = total_common_shares

\* C2 witness: a table in which common shares were redeemed, at a rate
\* strictly between 0 and 1.
C2_Witness ==
    /\ HasTable
    /\ Less(Zero, CommonRateUsed) /\ Less(CommonRateUsed, One)
    /\ Less(Zero, Returned[2026]["Common Shares Redeemed"])
    /\ Less(Zero, Returned[LastYear]["Unsold Common Shares"])

ShareFields ==
    {"Common Shares Redeemed", "Cumulative Common Redeemed", "Unsold Common Shares",
     "Vested Shares", "Vested Unsold Shares", "Redeemed Shares",
     "Cumulative Redeemed", "Unsold Shares"}
MoneyFields ==
    {"Share Price", "Common Redemption Value", "Cumulative Common Redemption Value",
     "Value of Unsold Common Shares", "Total Common Share Value",
     "Redemption Value", "Cumulative Redemption Value", "Value of Unsold Shares",
     "Total Grant Value"}

\* The inputs C3 speaks of: growth above -1, both rates in [0, 1], no negative
\* share count, a grant of at least one share, positive prices.
C3_Domain ==
    /\ Less(Dec(-1, 0), GrowthUsed)
    /\ Leq(Zero, CommonRateUsed) /\ Leq(CommonRateUsed, One)
    /\ Leq(Zero, OptionRateUsed) /\ Leq(OptionRateUsed, One)
    /\ Leq(Zero, total_common_shares)
    /\ Leq(One, total_grant_shares)
    /\ Less(Zero, common_purchase_price) /\ Less(Zero, strike_price)

\* C3: on those inputs, whatever the vesting schedule, no share count and no
\* amount of any year is negative, the unsold common shares never exceed
\* total_common_shares and the unsold granted shares never exceed
\* total_grant_shares.
C3_NonNegative ==
    (HasTable /\ C3_Domain) =>
        \A y \in years :
            /\ \A k \in ShareFields \cup MoneyFields : Leq(Zero, Returned[y][k])
            /\ y # FirstYear => Leq(Zero, Returned[y]["Combined Total Value"])
            /\ Leq(Returned[y]["Unsold Common Shares"], total_common_shares)
            /\ Leq(Returned[y]["Unsold Shares"], total_grant_shares)

\* C3 witness: a table from a schedule that drops to zero after shares were
\* redeemed, so that the floor on the vested unsold shares is what keeps them
\* from going negative.
C3_Witness ==
    /\ HasTable /\ C3_Domain
    /\ \E y \in From2026 :
          /\ Less(Returned[y]["Vested Shares"], Returned[y]["Cumulative Redeemed"])
          /\ Returned[y]["Vested Unsold Shares"] = Zero

\* The entry the sidebar holds for a year, when it holds a number for it.
HasNumber(y) == y \in DOMAIN vested_shares_input /\ IsNum(vested_shares_input[y])
InRange(v) == Leq(Zero, v) /\ Leq(v, total_grant_shares)
Clamp(v) ==
    IF Less(v, Zero) THEN Zero
    ELSE IF Less(total_grant_shares, v) THEN total_grant_shares ELSE v

\* C4 as stated: the recorded Vested Shares is the supplied value clamped to
\* [0, total_grant_shares].
C4_Clamped ==
    HasTable =>
        \A y \in From2025 :
            HasNumber(y) => Returned[y]["Vested Shares"] = Clamp(vested_shares_input[y])

\* C4 as amended: a supplied value within [0, total_grant_shares] is recorded
\* as it is; one above the grant or negative is not clamped but replaced, by
\* min(60000, total_grant_shares) for 2025 and by min(last year's recorded
\* Vested Shares + 5000, total_grant_shares) for a later year.
C4_InRangeOrReplaced ==
    HasTable =>
        \A y \in From2025 :
            HasNumber(y) =>
                Returned[y]["Vested Shares"] =
                    IF InRange(vested_shares_input[y]) THEN vested_shares_input[y]
                    ELSE IF y = 2025 THEN Min(Dec(60000, 0), total_grant_shares)
                    ELSE Min(Add(Returned[y - 1]["Vested Shares"], Dec(5000, 0)),
                             total_grant_shares)

\* C4 witness: a table from a schedule with a value above the grant in 2025
\* and a negative value in 2026, neither of them recorded clamped.
C4_Witness ==
    /\ HasTable
    /\ HasNumber(2025) /\ Less(total_grant_shares, vested_shares_input[2025])
    /\ Returned[2025]["Vested Shares"] # total_grant_shares
    /\ HasNumber(2026) /\ Less(vested_shares_input[2026], Zero)
    /\ Returned[2026]["Vested Shares"] # Zero

\* The year's entry is absent, None, or a number outside [0, total_grant_shares].
Unusable(y) ==
    \/ y \notin DOMAIN vested_shares_input
    \/ vested_shares_input[y] = None
    \/ HasNumber(y) /\ ~InRange(vested_shares_input[y])

\* C5 as stated: with every entry a number in range, absent, None or out of
\* range, the call returns a complete table; an unusable entry of a year from
\* 2026 on is recorded as last year's recorded Vested Shares, and an unusable
\* entry of 2025 as min(60000, total_grant_shares).
C5_CarryForward ==
    (calls # <<>> /\ IsNum(GrowthUsed)
        /\ \A y \in From2025 : HasNumber(y) \/ Unusable(y)) =>
        /\ ~Latest.raised
        /\ DOMAIN Returned = years
        /\ \A y \in From2026 :
              Unusable(y) =>
                  Returned[y]["Vested Shares"] = Returned[y - 1]["Vested Shares"]
        /\ Unusable(2025) =>
              Returned[2025]["Vested Shares"] = Min(Dec(60000, 0), total_grant_shares)

\* C6: a run whose common redemption rate is 0 leaves every common share
\* unsold in every year, redeems nothing and realises nothing, so that the
\* total common value of a year from 2025 on is max(0, Share Price -
\* common_purchase_price) * total_common_shares.
C6_ZeroRedemption ==
    (HasTable /\ CommonRateUsed = Zero) =>
        /\ \A y \in years :
              /\ Returned[y]["Unsold Common Shares"] = total_common_shares
              /\ Returned[y]["Common Shares Redeemed"] = Zero
              /\ Returned[y]["Cumulative Common Redeemed"] = Zero
              /\ Returned[y]["Cumulative Common Redemption Value"] = Zero
        /\ \A y \in From2025 :
              Returned[y]["Total Common Share Value"] =
                  Mul(Max0(Sub(Returned[y]["Share Price"], common_purchase_price)),
                      total_common_shares)

\* C6 witness: a run at rate 0 with common shares worth more than they cost.
C6_Witness ==
    /\ HasTable
    /\ CommonRateUsed = Zero
    /\ Less(Zero, total_common_shares)
    /\ Less(Zero, Returned[LastYear]["Total Common Share Value"])

OptionUnderwater ==
    \A y \in From2025 : Leq(Returned[y]["Share Price"], strike_price)
CommonUnderwater ==
    \A y \in From2025 : Leq(Returned[y]["Share Price"], common_purchase_price)

\* C7: when the strike price is at or above the share price of every year
\* from 2025 on, the option redemption value, cumulative redemption value,
\* value of unsold shares and total grant value are 0 in each of those years;
\* likewise the common-share amounts when common_purchase_price is.
C7_UnderwaterClamp ==
    HasTable =>
        /\ OptionUnderwater =>
              \A y \in From2025 :
                  \A k \in {"Redemption Value", "Cumulative Redemption Value",
                            "Value of Unsold Shares", "Total Grant Value"} :
                      Returned[y][k] = Zero
        /\ CommonUnderwater =>
              \A y \in From2025 :
                  \A k \in {"Common Redemption Value",
                            "Cumulative Common Redemption Value",
                            "Value of Unsold Common Shares",
                            "Total Common Share Value"} :
                      Returned[y][k] = Zero

\* C7 witness: both holdings under water in a year in which shares of both
\* were redeemed, at a price strictly below the strike.
C7_Witness ==
    /\ HasTable
    /\ OptionUnderwater /\ CommonUnderwater
    /\ Less(Returned[2026]["Share Price"], strike_price)
    /\ Less(Zero, Returned[2026]["Redeemed Shares"])
    /\ Less(Zero, Returned[2026]["Common Shares Redeemed"])
    /\ Less(Zero, Returned[2026]["Vested Unsold Shares"])

\* What a call runs with, arguments resolved against the sidebar.
Used(call) ==
    <<IF call.growth_rate = None THEN pbt_growth_rate ELSE call.growth_rate,
      IF call.custom_common_redemption = None THEN common_redemption_rate
      ELSE call.custom_common_redemption,
      IF call.custom_option_redemption = None THEN option_redemption_rate
      ELSE call.custom_option_redemption>>

\* The earlier call whose table `results` holds, and the latest call if its
\* table is the one `rate_results` holds.
MainCalls == {i \in 1..Len(calls) : calls[i].into = "results" /\ ~calls[i].raised}
Rerun == HasTable /\ Latest.into = "rate_results" /\ MainCalls # {}

\* A later call that runs with what the main run ran with returns the main
\* run's table, whatever calls were made in between.
SameTableAsFirst ==
    Rerun => \A i \in MainCalls :
                 Used(calls[i]) = Used(Latest) => rate_results = results

\* A step leaves the sidebar as it was, and a call leaves the table bound to
\* the other variable as it was.
WritesOwnTableOnly ==
    /\ ambient' = ambient
    /\ calls' # calls =>
          IF calls'[Len(calls')].into = "results" THEN rate_results' = rate_results
          ELSE results' = results

\* C8: no call changes the sidebar's rates, counts, prices or schedule, or the
\* table of another call; so a call made after others returns what the same
\* call made first returns.
C8_RerunIndependence == [][WritesOwnTableOnly]_vars /\ []SameTableAsFirst

\* C8 witness: the common sensitivity loop has called with rate 0 and then
\* with the rate and growth of the main run, and so returned the main table,
\* in which shares were redeemed.
C8_Witness ==
    /\ Rerun
    /\ Len(calls) = 3
    /\ calls[2].custom_common_redemption # calls[3].custom_common_redemption
    /\ Used(calls[1]) = Used(calls[3])
    /\ rate_results = results
    /\ Less(Zero, results[LastYear]["Cumulative Common Redeemed"])

\* C9: 2025 redeems no common shares; a later year redeems the common rate
\* times the shares unsold the year before, worth max(0, Share Price -
\* common_purchase_price) each; and at 20 % growth, a 5 % rate, 30000 shares
\* bought at 2.00, Share Price[2025] is 7.20, Unsold Common Shares[2026] is
\* 28500 and Common Redemption Value[2026] is 9960.
C9_CommonRedemptionStep ==
    HasTable =>
        /\ Returned[2025]["Common Shares Redeemed"] = Zero
        /\ \A y \in From2026 :
              /\ Returned[y]["Common Shares Redeemed"] =
                     Mul(Returned[y - 1]["Unsold Common Shares"], CommonRateUsed)
              /\ Returned[y]["Common Redemption Value"] =
                     Mul(Max0(Sub(Returned[y]["Share Price"], common_purchase_price)),
                         Returned[y]["Common Shares Redeemed"])
        /\ ( /\ GrowthUsed = Pct(20) /\ CommonRateUsed = Pct(5)
             /\ total_common_shares = Dec(30000, 0)
             /\ common_purchase_price = Dec(2, 0) ) =>
              /\ Returned[2025]["Share Price"] = Dec(72000, 1)
              /\ Returned[2026]["Unsold Common Shares"] = Dec(28500, 0)
              /\ Returned[2026]["Common Redemption Value"] = Dec(9960, 0)

\* C9 witness: the table of the scenario, in which 2027 redeems 5 % of the
\* 28500 shares left after 2026.
C9_Witness ==
    /\ HasTable
    /\ GrowthUsed = Pct(20) /\ CommonRateUsed = Pct(5)
    /\ total_common_shares = Dec(30000, 0)
    /\ common_purchase_price = Dec(2, 0)
    /\ Returned[2027]["Common Shares Redeemed"] = Dec(1425, 0)

\* The sidebar makes the two holdings alike: as many common shares as granted
\* shares, one price, and the whole grant vested in every year from 2025 on.
Alike ==
    /\ total_grant_shares = total_common_shares
    /\ strike_price = common_purchase_price
    /\ \A y \in From2025 :
          y \in DOMAIN vested_shares_input /\ vested_shares_input[y] = total_grant_shares

\* C10: with the holdings alike and one redemption rate for both, every option
\* field of a year from 2025 on equals the common-share field it corresponds
\* to, Vested Unsold Shares and Unsold Shares both equalling Unsold Common
\* Shares.
C10_CommonIsFullyVestedOption ==
    (HasTable /\ Alike /\ CommonRateUsed = OptionRateUsed) =>
        \A y \in From2025 :
            /\ Returned[y]["Redeemed Shares"] = Returned[y]["Common Shares Redeemed"]
            /\ Returned[y]["Cumulative Redeemed"] =
                   Returned[y]["Cumulative Common Redeemed"]
            /\ Returned[y]["Vested Unsold Shares"] = Returned[y]["Unsold Common Shares"]
            /\ Returned[y]["Unsold Shares"] = Returned[y]["Unsold Common Shares"]
            /\ Returned[y]["Redemption Value"] = Returned[y]["Common Redemption Value"]
            /\ Returned[y]["Cumulative Redemption Value"] =
                   Returned[y]["Cumulative Common Redemption Value"]
            /\ Returned[y]["Value of Unsold Shares"] =
                   Returned[y]["Value of Unsold Common Shares"]
            /\ Returned[y]["Total Grant Value"] = Returned[y]["Total Common Share Value"]

\* C10 witness: alike holdings, one rate strictly between 0 and 1, shares
\* redeemed and a positive value.
C10_Witness ==
    /\ HasTable /\ Alike /\ CommonRateUsed = OptionRateUsed
    /\ Less(Zero, CommonRateUsed) /\ Less(CommonRateUsed, One)
    /\ Less(Zero, Returned[LastYear]["Redeemed Shares"])
    /\ Less(Zero, Returned[LastYear]["Total Grant Value"])

\* C11: each of the three rates a call runs with is the argument when one is
\* given, 0.0 included, and the sidebar's value only when the argument is
\* None, each independently of the other two.  The rates a call ran with are
\* read off its table: the growth from the 2025 price, the common rate from
\* the common shares redeemed in 2026 (of the whole holding), the option rate
\* from the shares redeemed in 2026 (of the shares vested in 2025).
C11_ParameterOverrides ==
    HasTable =>
        /\ Returned[2025]["Share Price"] =
               Mul(Returned[FirstYear]["Share Price"], Add(One, GrowthUsed))
        /\ Returned[2026]["Common Shares Redeemed"] =
               Mul(total_common_shares, CommonRateUsed)
        /\ Returned[2026]["Redeemed Shares"] =
               Mul(Returned[2025]["Vested Shares"], OptionRateUsed)

\* C11 witness: a call given a growth other than the sidebar's, a common rate
\* of 0.0 where the sidebar's is not 0, and no option rate; its table redeems
\* no common share although there are some, and redeems granted shares at the
\* sidebar's rate.
C11_Witness ==
    /\ HasTable
    /\ Latest.growth_rate # None /\ Latest.growth_rate # pbt_growth_rate
    /\ Latest.custom_common_redemption = Zero /\ common_redemption_rate # Zero
    /\ Latest.custom_option_redemption = None
    /\ Less(Zero, total_common_shares)
    /\ Returned[2026]["Common Shares Redeemed"] = Zero
    /\ Less(Zero, Returned[2026]["Redeemed Shares"])

\* The tabs, which read `results` (lines 369-546).
Rendering == pc \in {"tab1", "tab2", "tab3", "done"}

\* The calls whose table is bound to `results`: the main run and the fallback.
ResultsCalls == {i \in 1..Len(calls) : calls[i].into = "results"}

\* C12: the first call is the main run, with the sidebar's parameters; a
\* fallback calculate_results(0.10, 0.05, 0.05) is run once, second, and only
\* after the main run raised; the script stops only after both raised; and the
\* tabs are reached only with `results` a complete table, that of the main run
\* or, the main run having raised, that of the fallback.
C12_FallbackOrdering ==
    /\ pc = "main" <=> calls = <<>>
    /\ calls # <<>> => calls[1] = Call(None, None, None, "results", calls[1].raised)
    /\ ResultsCalls \subseteq {1, 2}
    /\ 2 \in ResultsCalls =>
          /\ calls[1].raised
          /\ calls[2] = Call(Pct(10), Pct(5), Pct(5), "results", calls[2].raised)
    /\ pc = "fallback" <=> (Len(calls) = 1 /\ calls[1].raised)
    /\ pc = "stopped" <=> (Len(calls) = 2 /\ calls[1].raised /\ calls[2].raised)
    /\ Rendering <=> (\E i \in ResultsCalls : ~calls[i].raised)
    /\ Rendering =>
          /\ DOMAIN results = years
          /\ \A y \in years : "Share Price" \in DOMAIN results[y]
          /\ results[2025]["Share Price"] =
                 Mul(Dec(6, 0),
                     Add(One, IF calls[1].raised THEN Pct(10) ELSE pbt_growth_rate))

\* C12 witness: the main run raised, the fallback returned, and the tabs show
\* the fallback's table (growth 0.10: a 2025 price of 6.60) to the end.
C12_Witness ==
    /\ pc = "done"
    /\ calls[1].raised /\ ~calls[2].raised /\ calls[2].into = "results"
    /\ DOMAIN results = years
    /\ results[2025]["Share Price"] = Dec(66000, 1)

\* The schedule has a number within [0, total_grant_shares] for every year
\* from 2025 on, and no year's number is below the year before's.
WellFormed ==
    /\ \A y \in From2025 : HasNumber(y) /\ InRange(vested_shares_input[y])
    /\ \A y \in From2026 : Leq(vested_shares_input[y - 1], vested_shares_input[y])

\* C13: with a well-formed schedule and an option redemption rate in [0, 1],
\* the shares redeemed so far never exceed the vested shares of the year, and
\* the vested unsold shares are exactly what is left of them: the floor at 0
\* is never what decides Vested Unsold Shares.
C13_OptionConservation ==
    (HasTable /\ WellFormed /\ Leq(Zero, OptionRateUsed) /\ Leq(OptionRateUsed, One)) =>
        \A y \in From2025 :
            /\ Leq(Returned[y]["Cumulative Redeemed"], Returned[y]["Vested Shares"])
            /\ Add(Returned[y]["Vested Unsold Shares"], Returned[y]["Cumulative Redeemed"])
                   = Returned[y]["Vested Shares"]

\* C13 witness: a well-formed schedule that rises, with less than the grant
\* vested in 2026, every vested share of 2025 redeemed in 2026 (rate 1), and
\* vested shares unsold again in 2027.
C13_Witness ==
    /\ HasTable /\ WellFormed
    /\ OptionRateUsed = One
    /\ Less(vested_shares_input[2025], vested_shares_input[LastYear])
    /\ Less(vested_shares_input[2026], total_grant_shares)
    /\ Less(Zero, Returned[2025]["Vested Shares"])
    /\ Returned[2026]["Cumulative Redeemed"] = Returned[2025]["Vested Shares"]
    /\ Less(Zero, Returned[2027]["Vested Unsold Shares"])

====
